---- MODULE Spec2Model ----
(***************************************************************************)
(* Model of src/dashboard/app.py, the financial-inclusion dashboard.       *)
(*                                                                         *)
(* The script is re-run from top to bottom for every page view.  One run   *)
(* loads the (cached) dataset, derives obs, and renders exactly one page.  *)
(* The state is the loaded dataset, the forecast artifact on disk, and     *)
(* what the last run put on the page.                                      *)
(*                                                                         *)
(* Encodings                                                               *)
(*   text            a sequence of one-character strings, so that          *)
(*                   str.contains(.., case=False) is computed, not assumed *)
(*   optional cell   <<>> for a missing cell (NaN / NaT / None),           *)
(*                   <<x>> for a present x                                 *)
(*   timestamp       the integer yyyymmdd                                  *)
(*   float quotient  an exact fraction, or one of inf, -inf, nan           *)
(***************************************************************************)
EXTENDS Integers, Sequences, FiniteSets

VARIABLES
    df,              \* the loaded dataset (load_data's return value)
    forecast_exists, \* whether ../data/processed/forecasts.csv exists
    forecast_csv,    \* the rows of that file when it exists
    page,            \* the page the last run rendered ("none" before any run)
    scenario,        \* the scenario widget's value in the last run
    metric,          \* Overview: keyword -> latest_value / growth_rate results
    merged,          \* Overview: the P2P / ATM merge with its ratio column
    info,            \* Overview: st.info("P2P or ATM indicators not available.")
    warning,         \* st.warning("Forecast file not found...") was shown
    file_read,       \* pd.read_csv(forecast_file) was called in the last run
    chart,           \* a forecast chart was drawn in the last run
    figure           \* the rows handed to that chart

vars == <<df, forecast_exists, forecast_csv, page, scenario, metric, merged,
          info, warning, file_read, chart, figure>>

----------------------------------------------------------------------------
(* Bounds of the model *)

MaxRows == 3

MaxRatioRows == 4

MaxForecastRows == 3

----------------------------------------------------------------------------
(* Optional cells and text *)

None == <<>>

Some(x) == <<x>>

NaT == <<>>

NaN == <<>>

Range(s) == {s[i] : i \in 1..Len(s)}

UpperChars ==
    <<"A","B","C","D","E","F","G","H","I","J","K","L","M",
      "N","O","P","Q","R","S","T","U","V","W","X","Y","Z">>

LowerChars ==
    <<"a","b","c","d","e","f","g","h","i","j","k","l","m",
      "n","o","p","q","r","s","t","u","v","w","x","y","z">>

\* One character folded to lower case.
LowerChar(c) ==
    IF \E i \in 1..26 : UpperChars[i] = c
    THEN LowerChars[CHOOSE i \in 1..26 : UpperChars[i] = c]
    ELSE c

Lower(s) == [i \in 1..Len(s) |-> LowerChar(s[i])]

\* Series.str.contains(keyword, case=False) for one cell.  The keywords the
\* script passes hold no regular-expression metacharacter, so the search is
\* a plain substring search on the case-folded text.
ContainsCaseSensitive(s, keyword) ==
    \E i \in 1..(Len(s) - Len(keyword) + 1) :
        SubSeq(s, i, i + Len(keyword) - 1) = keyword

str_contains(s, keyword) ==
    \E i \in 1..(Len(s) - Len(keyword) + 1) :
        SubSeq(Lower(s), i, i + Len(keyword) - 1) = Lower(keyword)

----------------------------------------------------------------------------
(* Keywords the script searches for, and the indicator names of the model *)

\* latest_value("account"), latest_value("digital"), latest_value("mobile")
account == <<"a","c","c","o","u","n","t">>

digital == <<"d","i","g","i","t","a","l">>

mobile == <<"m","o","b","i","l","e">>

\* str.contains("p2p", ...), str.contains("atm", ...)
p2p_keyword == <<"p","2","p">>

atm_keyword == <<"a","t","m">>

Keywords == {account, digital, mobile, p2p_keyword, atm_keyword}

AccountX == <<"A","c","c","o","u","n","t"," ","X">>

MobileAccount == <<"M","O","B","I","L","E"," ","a","c","c","t"," ","a","c","c","o","u","n","t","s">>

MobileP2P == <<"M","o","b","i","l","e"," ","P","2","P">>

ATMWithdrawals == <<"A","T","M"," ","w","i","t","h","d","r","a","w","a","l","s">>

AccountOwnership == <<"A","c","c","o","u","n","t"," ","O","w","n","e","r","s","h","i","p">>

accountUsage == <<"a","c","c","o","u","n","t"," ","u","s","a","g","e">>

DigitalPayments == <<"D","i","g","i","t","a","l"," ","P","a","y","m","e","n","t","s">>

IndicatorNames ==
    {AccountX, MobileAccount, MobileP2P, ATMWithdrawals,
     AccountOwnership, accountUsage, DigitalPayments}

\* str_contains tabulated once over the names and keywords above.
ContainsTable ==
    [s \in IndicatorNames |-> [k \in Keywords |-> str_contains(s, k)]]

contains(s, keyword) == ContainsTable[s][keyword]

----------------------------------------------------------------------------
(* Dataset loader *)

\* pd.to_datetime(cell, errors="coerce"): a well-formed date parses, anything
\* else becomes NaT instead of raising.
to_datetime(cell) ==
    CASE cell = "2018-06-30" -> Some(20180630)
      [] cell = "2019-06-30" -> Some(20190630)
      [] cell = "2020-06-30" -> Some(20200630)
      [] cell = "2021-03-31" -> Some(20210331)
      [] cell = "2021-11-30" -> Some(20211130)
      [] OTHER -> NaT

\* read_excel gives the rows a RangeIndex; the date column is then parsed.
load_data(sheet) ==
    [i \in 1..Len(sheet) |->
        [index |-> i - 1,
         indicator |-> sheet[i].indicator,
         observation_date |-> to_datetime(sheet[i].observation_date),
         value_numeric |-> sheet[i].value_numeric,
         record_type |-> sheet[i].record_type]]

\* Timestamp.year / Series.dt.year: NaN for NaT.
Year(date) == IF date = NaT THEN NaN ELSE Some(date[1] \div 10000)

WithYear(row) ==
    [index |-> row.index,
     indicator |-> row.indicator,
     observation_date |-> row.observation_date,
     value_numeric |-> row.value_numeric,
     record_type |-> row.record_type,
     year |-> Year(row.observation_date)]

\* obs = df[df["record_type"] == "observation"].copy(); obs["year"] = ...
obs ==
    LET kept == SelectSeq(df, LAMBDA row : row.record_type = "observation")
    IN  [i \in 1..Len(kept) |-> WithYear(kept[i])]

----------------------------------------------------------------------------
(* Indicator query helpers *)

notna(cell) == cell # <<>>

SubsetNoNotna(keyword) ==
    SelectSeq(obs, LAMBDA row : contains(row.indicator, keyword))

\* The boolean-mask selection shared by latest_value and growth_rate.
Subset(keyword) ==
    SelectSeq(obs, LAMBDA row :
        contains(row.indicator, keyword) /\ notna(row.value_numeric))

MinDate(S) ==
    CHOOSE d \in {r.observation_date[1] : r \in S} :
        \A r \in S : d <= r.observation_date[1]

RECURSIVE AscendingOrders(_)
\* Every ordering of the dated rows S that is ascending by observation_date.
AscendingOrders(S) ==
    IF S = {} THEN {<<>>}
    ELSE UNION {{<<r>> \o t : t \in AscendingOrders(S \ {r})} :
                r \in {q \in S : q.observation_date[1] = MinDate(S)}}

\* DataFrame.sort_values("observation_date") with its defaults
\* (kind="quicksort", na_position="last"): the dated rows ascending, then the
\* NaT rows in their original order.  quicksort is not a stable sort, so rows
\* with equal dates may come out in any order: the set of possible results.
sort_values(frame) ==
    LET dated == SelectSeq(frame, LAMBDA row : row.observation_date # NaT)
        undated == SelectSeq(frame, LAMBDA row : row.observation_date = NaT)
    IN  {s \o undated : s \in AscendingOrders(Range(dated))}

\* latest_value, given the sorted frame its sort_values call produced.
latest_value(keyword, sorted) ==
    IF Subset(keyword) = <<>> THEN None
    ELSE LET row == sorted[Len(sorted)]
         IN  Some(<<row.value_numeric, Year(row.observation_date)>>)

\* Float subtraction; a missing operand gives NaN.
Minus(a, b) == IF a = NaN \/ b = NaN THEN NaN ELSE Some(a[1] - b[1])

\* growth_rate, given the sorted frame its sort_values call produced.
growth_rate(keyword, sorted) ==
    IF Len(sorted) < 2 THEN None
    ELSE Some(Minus(sorted[Len(sorted)].value_numeric,
                    sorted[Len(sorted) - 1].value_numeric))

OverviewKeywords == {account, digital, mobile}

----------------------------------------------------------------------------
(* Ratio / join *)

\* obs[obs["indicator"].str.contains(keyword, case=False, na=False)]: no
\* notna() condition on value_numeric here.
IndicatorRows(keyword) ==
    SelectSeq(obs, LAMBDA row : contains(row.indicator, keyword))

RECURSIVE GCD(_, _)
GCD(a, b) == IF b = 0 THEN a ELSE GCD(b, a % b)

Abs(n) == IF n < 0 THEN -n ELSE n

NonFinite(kind) == [kind |-> kind, num |-> 0, den |-> 0]

DivideGuarded(p, a) ==
    IF p = NaN \/ a = NaN THEN NonFinite("nan")
    ELSE IF a[1] = 0 THEN [kind |-> "finite", num |-> 0, den |-> 1]
    ELSE LET g == GCD(Abs(p[1]), Abs(a[1]))
             sign == IF a[1] < 0 THEN -1 ELSE 1
         IN  [kind |-> "finite",
              num |-> sign * (p[1] \div g),
              den |-> sign * (a[1] \div g)]

\* Element-wise float division of two columns: NaN propagates, x / 0 is
\* inf, -inf or nan and does not raise; otherwise the exact quotient in
\* lowest terms.
Divide(p, a) ==
    IF p = NaN \/ a = NaN THEN NonFinite("nan")
    ELSE IF a[1] = 0
         THEN IF p[1] > 0 THEN NonFinite("inf")
              ELSE IF p[1] < 0 THEN NonFinite("-inf")
              ELSE NonFinite("nan")
    ELSE LET g == GCD(Abs(p[1]), Abs(a[1]))
             sign == IF a[1] < 0 THEN -1 ELSE 1
         IN  [kind |-> "finite",
              num |-> sign * (p[1] \div g),
              den |-> sign * (a[1] \div g)]

JoinRow(l, r) ==
    [year |-> l.year,
     value_numeric_p2p |-> l.value_numeric,
     value_numeric_atm |-> r.value_numeric]

RECURSIVE CrossJoin(_, _)
CrossJoin(left, right) ==
    IF left = <<>> THEN <<>>
    ELSE [j \in 1..Len(right) |-> JoinRow(Head(left), right[j])]
         \o CrossJoin(Tail(left), right)

RECURSIVE pd_merge(_, _)
\* pd.merge(left, right, on="year", suffixes=("_p2p", "_atm")), how="inner":
\* one row per pair of a left and a right row with equal year (missing
\* years match each other), in the order of the left rows.
pd_merge(left, right) ==
    IF left = <<>> THEN <<>>
    ELSE LET l == Head(left)
             partners == SelectSeq(right, LAMBDA r : r.year = l.year)
         IN  [j \in 1..Len(partners) |-> JoinRow(l, partners[j])]
             \o pd_merge(Tail(left), right)

\* merged["ratio"] = merged["value_numeric_p2p"] / merged["value_numeric_atm"]
WithRatio(frame) ==
    [i \in 1..Len(frame) |->
        [year |-> frame[i].year,
         value_numeric_p2p |-> frame[i].value_numeric_p2p,
         value_numeric_atm |-> frame[i].value_numeric_atm,
         ratio |-> Divide(frame[i].value_numeric_p2p,
                          frame[i].value_numeric_atm)]]

\* The Overview page's P2P / ATM block: the chart's frame, or the info
\* message when either selection is empty.
p2p_atm_ratio ==
    LET p2p == IndicatorRows(p2p_keyword)
        atm == IndicatorRows(atm_keyword)
    IN  IF p2p # <<>> /\ atm # <<>>
        THEN [info |-> FALSE, merged |-> WithRatio(pd_merge(p2p, atm))]
        ELSE [info |-> TRUE, merged |-> <<>>]

----------------------------------------------------------------------------
(* Forecast views *)

RadioOptionsOpen == {"base", "optimistic", "pessimistic", "invalid"}

\* st.radio("Scenario", [...]) on the Forecasts page and
\* st.selectbox("Select Scenario", [...]) on the Inclusion Projections page
\* return one of their options; no other scenario reaches the filters.
RadioOptions == {"base", "optimistic", "pessimistic"}

SelectboxOptions == {"base", "optimistic", "pessimistic"}

\* pd.read_csv(forecast_file): the file's rows under a RangeIndex.
read_csv ==
    [i \in 1..Len(forecast_csv) |->
        [index |-> i - 1,
         indicator |-> forecast_csv[i].indicator,
         year |-> forecast_csv[i].year,
         value |-> forecast_csv[i].value,
         scenario |-> forecast_csv[i].scenario]]

\* fc[fc["scenario"] == scenario]
ScenarioRows(fc, s) == SelectSeq(fc, LAMBDA row : row.scenario = s)

acc_fc_case_sensitive(fc, s) ==
    SelectSeq(fc, LAMBDA row :
        ContainsCaseSensitive(row.indicator, account) /\ row.scenario = s)

\* fc[fc["indicator"].str.contains("account", case=False)
\*    & (fc["scenario"] == scenario)]
acc_fc(fc, s) ==
    SelectSeq(fc, LAMBDA row :
        contains(row.indicator, account) /\ row.scenario = s)

\* What the Forecasts page does for scenario s.  No statement of the page
\* raises on the scenario's value: error is "none" on both branches.
ForecastsView(s) ==
    IF ~forecast_exists
    THEN [warning |-> TRUE, file_read |-> FALSE, chart |-> FALSE,
          figure |-> <<>>, error |-> "none"]
    ELSE [warning |-> FALSE, file_read |-> TRUE, chart |-> TRUE,
          figure |-> ScenarioRows(read_csv, s), error |-> "none"]

\* What the Inclusion Projections page does for scenario s: the block is
\* guarded by forecast_file.exists() and has no else branch.
InclusionView(s) ==
    IF forecast_exists
    THEN [warning |-> FALSE, file_read |-> TRUE, chart |-> TRUE,
          figure |-> acc_fc(read_csv, s), error |-> "none"]
    ELSE [warning |-> FALSE, file_read |-> FALSE, chart |-> FALSE,
          figure |-> <<>>, error |-> "none"]

----------------------------------------------------------------------------
(* Page runs *)

NoMetric == [k \in OverviewKeywords |-> [latest |-> None, growth |-> None]]

\* page == "Overview".  The three metrics call latest_value once and
\* growth_rate twice per keyword; every call sorts the same selection with
\* the same deterministic routine, so one run sees one order per keyword.
Overview ==
    /\ \E sa \in sort_values(Subset(account)),
          sd \in sort_values(Subset(digital)),
          sm \in sort_values(Subset(mobile)) :
          metric' = [k \in OverviewKeywords |->
              LET sorted == IF k = account THEN sa
                            ELSE IF k = digital THEN sd ELSE sm
              IN  [latest |-> latest_value(k, sorted),
                   growth |-> growth_rate(k, sorted)]]
    /\ merged' = p2p_atm_ratio.merged
    /\ info' = p2p_atm_ratio.info
    /\ page' = "Overview"
    /\ scenario' = "none"
    /\ warning' = FALSE
    /\ file_read' = FALSE
    /\ chart' = FALSE
    /\ figure' = <<>>
    /\ UNCHANGED <<df, forecast_exists, forecast_csv>>

\* page == "Forecasts".  The scenario radio exists only on the else branch.
Forecasts ==
    /\ \E s \in RadioOptions :
          /\ scenario' = IF forecast_exists THEN s ELSE "none"
          /\ warning' = ForecastsView(s).warning
          /\ file_read' = ForecastsView(s).file_read
          /\ chart' = ForecastsView(s).chart
          /\ figure' = ForecastsView(s).figure
    /\ page' = "Forecasts"
    /\ metric' = NoMetric
    /\ merged' = <<>>
    /\ info' = FALSE
    /\ UNCHANGED <<df, forecast_exists, forecast_csv>>

\* page == "Inclusion Projections".  The selectbox precedes the file check.
InclusionProjections ==
    /\ \E s \in SelectboxOptions :
          /\ scenario' = s
          /\ warning' = InclusionView(s).warning
          /\ file_read' = InclusionView(s).file_read
          /\ chart' = InclusionView(s).chart
          /\ figure' = InclusionView(s).figure
    /\ page' = "Inclusion Projections"
    /\ metric' = NoMetric
    /\ merged' = <<>>
    /\ info' = FALSE
    /\ UNCHANGED <<df, forecast_exists, forecast_csv>>

----------------------------------------------------------------------------
(* Initial states: the data files as found, nothing rendered yet *)

Sheets(cells, n) == UNION {[1..k -> cells] : k \in 0..n}

NothingRendered ==
    /\ page = "none"
    /\ scenario = "none"
    /\ metric = NoMetric
    /\ merged = <<>>
    /\ info = FALSE
    /\ warning = FALSE
    /\ file_read = FALSE
    /\ chart = FALSE
    /\ figure = <<>>

QueryCells ==
    [indicator : {AccountX, MobileAccount},
     observation_date : {"2018-06-30", "2021-03-31", "2021-11-30", "n/a"},
     value_numeric : {NaN, Some(40), Some(46)},
     record_type : {"observation", "event"}]

RatioCells ==
    [indicator : {MobileP2P},
     observation_date : {"2019-06-30", "2020-06-30"},
     value_numeric : {NaN, Some(10), Some(20)},
     record_type : {"observation"}]
    \cup
    [indicator : {ATMWithdrawals},
     observation_date : {"2019-06-30"},
     value_numeric : {Some(0), Some(5)},
     record_type : {"observation"}]
    \cup
    [indicator : {ATMWithdrawals},
     observation_date : {"2020-06-30"},
     value_numeric : {Some(0), Some(50)},
     record_type : {"observation"}]

ForecastCells ==
    [indicator : {AccountOwnership, accountUsage, DigitalPayments},
     year : {2025, 2026},
     value : {55},
     scenario : {"base", "optimistic"}]

NoForecast ==
    /\ forecast_exists = FALSE
    /\ forecast_csv = <<>>

InitQuery ==
    /\ df \in {load_data(sheet) : sheet \in Sheets(QueryCells, MaxRows)}
    /\ NoForecast
    /\ NothingRendered

InitRatio ==
    /\ df \in {load_data(sheet) : sheet \in Sheets(RatioCells, MaxRatioRows)}
    /\ NoForecast
    /\ NothingRendered

InitForecast ==
    /\ df = <<>>
    /\ forecast_exists \in BOOLEAN
    /\ forecast_csv \in IF forecast_exists
                        THEN Sheets(ForecastCells, MaxForecastRows)
                        ELSE {<<>>}
    /\ NothingRendered

Init == InitQuery \/ InitRatio \/ InitForecast

NextForecast == Forecasts \/ InclusionProjections

Next == Overview \/ NextForecast

Spec == Init /\ [][Next]_vars

SpecQuery == InitQuery /\ [][Overview]_vars

SpecRatio == InitRatio /\ [][Overview]_vars

SpecForecast == InitForecast /\ [][NextForecast]_vars

----------------------------------------------------------------------------
(* Vocabulary of the properties *)

\* The observation rows a keyword matches with a present numeric value.
Matching(k) ==
    {r \in Range(obs) : contains(r.indicator, k) /\ r.value_numeric # NaN}

\* Those of them whose observation date parsed.
DatedMatching(k) == {r \in Matching(k) : r.observation_date # NaT}

\* r carries the greatest observation date of the dated rows S.
Greatest(r, S) ==
    /\ r \in S
    /\ \A q \in S : q.observation_date[1] <= r.observation_date[1]

OverviewRendered == page = "Overview"

----------------------------------------------------------------------------
(* Indicator query properties, checked under SpecQuery *)

\* C1: latest_value(keyword) is absent exactly when no observation row
\* matches the keyword with a present numeric value; otherwise it is the
\* value and the year of a row whose observation date is the greatest among
\* all matching rows, pooled over every indicator the keyword matches.
C1_LatestValueContract ==
    OverviewRendered =>
        \A k \in OverviewKeywords :
            /\ (metric[k].latest = None) <=> (Matching(k) = {})
            /\ Matching(k) # {} =>
                   \E r \in DatedMatching(k) :
                       /\ Greatest(r, DatedMatching(k))
                       /\ metric[k].latest =
                              Some(<<r.value_numeric,
                                     Some(r.observation_date[1] \div 10000)>>)

\* C2: growth_rate(keyword) is absent when fewer than two rows match, and
\* otherwise is the value of the chronologically last matching row minus
\* the value of the second-to-last one in ascending date order.
C2_GrowthRateContract ==
    OverviewRendered =>
        \A k \in OverviewKeywords :
            /\ Cardinality(Matching(k)) < 2 => metric[k].growth = None
            /\ Cardinality(Matching(k)) >= 2 => metric[k].growth # None
            /\ Cardinality(DatedMatching(k)) >= 2 =>
                   \E last \in DatedMatching(k) :
                       /\ Greatest(last, DatedMatching(k))
                       /\ \E prev \in DatedMatching(k) \ {last} :
                              /\ Greatest(prev, DatedMatching(k) \ {last})
                              /\ metric[k].growth =
                                     Some(Some(last.value_numeric[1]
                                               - prev.value_numeric[1]))

\* C9: when several matching rows share the maximal observation date,
\* latest_value returns the one that comes last in the dataset's row order,
\* and growth_rate takes that same row as its last row.
C9_TieLastInsertedWins ==
    OverviewRendered =>
        \A k \in OverviewKeywords :
            LET tied == {r \in DatedMatching(k) : Greatest(r, DatedMatching(k))}
            IN  Cardinality(tied) >= 2 =>
                    \E r \in tied :
                        /\ \A q \in tied : q.index <= r.index
                        /\ metric[k].latest =
                               Some(<<r.value_numeric, r.year>>)
                        /\ \E x \in Matching(k) \ {r} :
                               metric[k].growth =
                                   Some(Some(r.value_numeric[1]
                                             - x.value_numeric[1]))

\* C10: a pair returned by latest_value carries a present year, and a
\* matching row whose date failed to parse is never taken as the last row:
\* it does not displace the dated rows in latest_value or growth_rate.
C10_UndatedRowNeverLast ==
    OverviewRendered =>
        \A k \in OverviewKeywords :
            /\ metric[k].latest # None => metric[k].latest[1][2] # NaN
            /\ DatedMatching(k) # {} =>
                   \E r \in DatedMatching(k) :
                       metric[k].latest = Some(<<r.value_numeric, r.year>>)
            /\ Cardinality(DatedMatching(k)) >= 2 =>
                   \E r \in DatedMatching(k) :
                       \E x \in DatedMatching(k) \ {r} :
                           metric[k].growth =
                               Some(Some(r.value_numeric[1]
                                         - x.value_numeric[1]))

----------------------------------------------------------------------------
(* Ratio / join properties, checked under SpecRatio *)

\* The observation rows whose indicator matches "p2p" / "atm", whatever
\* their value.
P2PRows == {r \in Range(obs) : contains(r.indicator, p2p_keyword)}

ATMRows == {r \in Range(obs) : contains(r.indicator, atm_keyword)}

JoinedPairs == {pa \in P2PRows \X ATMRows : pa[1].year = pa[2].year}

\* q is the quotient p / a of two present numbers with a non-zero.
IsQuotient(q, p, a) ==
    /\ q.kind = "finite"
    /\ q.den # 0
    /\ q.num * a = p * q.den

NonFiniteKinds == {"inf", "-inf", "nan"}

\* The (year, value) listing of the rows a keyword selects, in row order.
YearValues(keyword) ==
    [i \in 1..Len(IndicatorRows(keyword)) |->
        <<IndicatorRows(keyword)[i].year,
          IndicatorRows(keyword)[i].value_numeric>>]

\* p2p {2019: 10, 2020: 20} and atm {2019: 5, 2020: 50}
RatioExample ==
    /\ YearValues(p2p_keyword)
           = << <<Some(2019), Some(10)>>, <<Some(2020), Some(20)>> >>
    /\ YearValues(atm_keyword)
           = << <<Some(2019), Some(5)>>, <<Some(2020), Some(50)>> >>

\* The (year, ratio) listing of the merge result.
RatioList == [i \in 1..Len(merged) |-> <<merged[i].year, merged[i].ratio>>]

\* C3: the ratio result is the inner join on year of the "p2p" rows and the
\* "atm" rows: a year is in the result exactly when both selections hold
\* it, there is one entry per joined pair, each entry's ratio is its p2p
\* value divided by its atm value, and the example gives
\* [(2019, 2.0), (2020, 0.4)].
C3_InnerJoinOnYear ==
    OverviewRendered =>
        /\ {e.year : e \in Range(merged)}
               = {r.year : r \in P2PRows} \cap {r.year : r \in ATMRows}
        /\ Len(merged) = Cardinality(JoinedPairs)
        /\ \A e \in Range(merged) :
               \E pa \in JoinedPairs :
                   /\ e.year = pa[1].year
                   /\ e.value_numeric_p2p = pa[1].value_numeric
                   /\ e.value_numeric_atm = pa[2].value_numeric
                   /\ (/\ e.value_numeric_p2p # NaN
                       /\ e.value_numeric_atm # NaN
                       /\ e.value_numeric_atm # Some(0))
                      => IsQuotient(e.ratio, e.value_numeric_p2p[1],
                                    e.value_numeric_atm[1])
        /\ RatioExample =>
               RatioList
                   = << <<Some(2019), [kind |-> "finite", num |-> 2, den |-> 1]>>,
                        <<Some(2020), [kind |-> "finite", num |-> 2, den |-> 5]>> >>

C3_Witness ==
    /\ OverviewRendered
    /\ RatioExample
    /\ Len(merged) = 2
    /\ ~info

\* C7: an entry whose atm value is 0 carries a non-finite ratio; the merge
\* still yields every joined pair, and the entries with a non-zero atm
\* value keep their finite ratio.
C7_ZeroDenominatorNonFinite ==
    OverviewRendered =>
        /\ \A e \in Range(merged) :
               e.value_numeric_atm = Some(0) => e.ratio.kind \in NonFiniteKinds
        /\ (\E pa \in JoinedPairs : pa[2].value_numeric = Some(0)) =>
               /\ ~info
               /\ Len(merged) = Cardinality(JoinedPairs)
               /\ \A e \in Range(merged) :
                      (/\ e.value_numeric_p2p # NaN
                       /\ e.value_numeric_atm # NaN
                       /\ e.value_numeric_atm # Some(0))
                      => IsQuotient(e.ratio, e.value_numeric_p2p[1],
                                    e.value_numeric_atm[1])

C7_Witness ==
    /\ OverviewRendered
    /\ \E e \in Range(merged) :
           e.value_numeric_atm = Some(0) /\ e.ratio.kind = "inf"
    /\ \E e \in Range(merged) : e.ratio.kind = "finite"

\* Rows with an absent value stay out of latest_value and growth_rate, and
\* count for the emptiness check of the p2p and atm selections.
AbsentValueOutOfQueries ==
    /\ \A k \in OverviewKeywords :
           /\ (metric[k].latest = None) <=> (Matching(k) = {})
           /\ metric[k].latest # None =>
                  \E r \in Matching(k) :
                      metric[k].latest = Some(<<r.value_numeric, r.year>>)
           /\ (metric[k].growth = None) <=> (Cardinality(Matching(k)) < 2)
           /\ metric[k].growth # None =>
                  \E r \in Matching(k) :
                      \E x \in Matching(k) \ {r} :
                          metric[k].growth =
                              Some(Some(r.value_numeric[1]
                                        - x.value_numeric[1]))
    /\ info <=> (P2PRows = {} \/ ATMRows = {})

\* C8 as claimed: a row whose value_numeric is absent never supplies
\* latest_value's value, is never differenced by growth_rate, never
\* contributes an entry to the ratio result, and counts for the emptiness
\* checks.
C8_AbsentValueExcludedEverywhere ==
    OverviewRendered =>
        /\ AbsentValueOutOfQueries
        /\ \A e \in Range(merged) :
               e.value_numeric_p2p # NaN /\ e.value_numeric_atm # NaN

\* C8 amended: a row whose value_numeric is absent never supplies
\* latest_value's value and is never differenced by growth_rate; the ratio
\* selections do not filter on the value, so such a row counts for their
\* emptiness check and, wherever its year joins, contributes an entry
\* whose ratio is absent (nan), never a number.
C8_AbsentValueAmended ==
    OverviewRendered =>
        /\ AbsentValueOutOfQueries
        /\ \A pa \in JoinedPairs :
               (pa[1].value_numeric = NaN \/ pa[2].value_numeric = NaN) =>
                   \E e \in Range(merged) :
                       /\ e.year = pa[1].year
                       /\ e.value_numeric_p2p = pa[1].value_numeric
                       /\ e.value_numeric_atm = pa[2].value_numeric
        /\ \A e \in Range(merged) :
               (e.value_numeric_p2p = NaN \/ e.value_numeric_atm = NaN) =>
                   e.ratio.kind = "nan"

C8_Witness ==
    /\ OverviewRendered
    /\ \E r \in Range(obs) :
           /\ r.value_numeric = NaN
           /\ contains(r.indicator, mobile)
           /\ contains(r.indicator, p2p_keyword)
    /\ metric[mobile].latest # None
    /\ metric[mobile].growth # None
    /\ \E e \in Range(merged) : e.value_numeric_p2p = NaN

----------------------------------------------------------------------------
(* Forecast view properties, checked under SpecForecast *)

ForecastPages == {"Forecasts", "Inclusion Projections"}

\* The closed scenario set of the forecast data model.
Scenarios == {"base", "optimistic", "pessimistic"}

InvalidScenarios == {"invalid", "Base", ""}

\* C4: when the forecast file does not exist, each forecast view shows the
\* "forecast unavailable" warning and does not read the file.
C4_MissingForecastWarned ==
    (page \in ForecastPages /\ ~forecast_exists) =>
        (warning /\ ~file_read)

IsSelection(fig, wanted) ==
    /\ {fig[j].index + 1 : j \in 1..Len(fig)} = wanted
    /\ \A j \in 1..Len(fig) :
           /\ fig[j].indicator = forecast_csv[fig[j].index + 1].indicator
           /\ fig[j].year = forecast_csv[fig[j].index + 1].year
           /\ fig[j].value = forecast_csv[fig[j].index + 1].value
           /\ fig[j].scenario = forecast_csv[fig[j].index + 1].scenario
    /\ \A j \in 1..(Len(fig) - 1) : fig[j].index < fig[j + 1].index

\* C6: for a valid scenario the rows drawn are exactly the stored forecast
\* rows of that scenario (Forecasts page), restricted to the indicators
\* containing "account" in any letter case (Inclusion Projections page), in
\* their stored order.
C6_ForecastFilter ==
    chart =>
        /\ page = "Forecasts" =>
               IsSelection(figure,
                   {i \in 1..Len(forecast_csv) :
                        forecast_csv[i].scenario = scenario})
        /\ page = "Inclusion Projections" =>
               IsSelection(figure,
                   {i \in 1..Len(forecast_csv) :
                        /\ forecast_csv[i].scenario = scenario
                        /\ str_contains(forecast_csv[i].indicator, account)})

C6_Witness ==
    /\ chart
    /\ page = "Inclusion Projections"
    /\ Len(figure) = 2
    /\ figure[1].indicator # figure[2].indicator
    /\ Len(forecast_csv) = 3

====
